---- MODULE Spec2Model ----
(***************************************************************************)
(* A model of main.py: a FastAPI service with CRUD handlers over the       *)
(* SQLite tables categories, blocks and logs.                              *)
(*                                                                         *)
(* Every handler opens its own sqlite3 connection (get_db).  The python    *)
(* sqlite3 module opens a transaction implicitly before an INSERT, UPDATE  *)
(* or DELETE; the transaction holds the database's write lock until the    *)
(* connection commits or rolls back.  `with conn:` commits when its block  *)
(* ends normally and rolls back when it ends by an exception.  A second    *)
(* connection that wants to write while the lock is held waits for the     *)
(* busy timeout and then raises OperationalError (database is locked).     *)
(* Foreign keys are declared but never enforced (PRAGMA foreign_keys is    *)
(* never switched on).                                                     *)
(*                                                                         *)
(* Each request is a process: it runs its handler statement by statement,  *)
(* and the statements of concurrent requests interleave.                   *)
(***************************************************************************)
EXTENDS Integers, Sequences, FiniteSets, TLC

\* ---------------------------------------------------------------- bounds
MaxCatId == 2       \* category ids handed out, one request at a time
MaxBlockId == 2     \* block ids handed out, one request at a time
MaxLogs == 4        \* rows of the logs table, one request at a time
MaxClock == 1       \* seconds the store's clock advances
ConcCatId == 1      \* category ids handed out, concurrent requests
ConcBlockId == 1    \* block ids handed out, concurrent requests
ConcLogs == 3       \* rows of the logs table, concurrent requests

Procs == {1, 2}     \* requests in flight at once (SpecConc)
Names == {"A", "B"}
Titles == {"T", "U"}
Contents == {"C"}

\* What the requests of a specification range over.
SeqBounds == [cats |-> MaxCatId, blocks |-> MaxBlockId, logs |-> MaxLogs,
              names |-> Names, titles |-> Titles]
ConcBounds == [cats |-> ConcCatId, blocks |-> ConcBlockId, logs |-> ConcLogs,
               names |-> {"A"}, titles |-> {"T"}]

ReadOps == {"get_categories", "get_category", "get_blocks", "get_logs"}
CategoryDml == {"add_category", "update_category", "delete_category"}
BlockDml == {"add_block", "update_block", "delete_block"}
MutatingOps == CategoryDml \cup BlockDml
Ops == ReadOps \cup MutatingOps

VARIABLES
    categories,   \* committed rows of table categories: [id, name]
    blocks,       \* committed rows of table blocks: [id, category_id, title, content]
    logs,         \* committed rows of table logs, in rowid order: [id, level, created_at]
    catSeq,       \* sqlite_sequence of categories (AUTOINCREMENT)
    blockSeq,     \* sqlite_sequence of blocks (AUTOINCREMENT)
    clock,        \* CURRENT_TIMESTAMP of the store, in seconds
    tx,           \* per request: the open transaction of the handler's connection
    pc,           \* per request: the handler's position
    op,           \* per request: the handler that runs
    arg,          \* per request: path parameter and body
    cur,          \* per request: the cursor (fetched row, rowcount, lastrowid)
    level,        \* per request: the level handed to app_log
    resp,         \* per request: the response (returned when pc = "done")
    snap,         \* history: the committed tables when the request arrived
    assigned      \* history: every category id an INSERT has committed so far

vars == <<categories, blocks, logs, catSeq, blockSeq, clock, tx, pc, op, arg,
          cur, level, resp, snap, assigned>>

store == <<categories, blocks, catSeq, blockSeq>>
locals == <<op, arg, cur, level, resp, snap>>

\* ---------------------------------------------------------------- rows
Cat(i, n) == [id |-> i, name |-> n]
Blk(i, c, t, x) == [id |-> i, category_id |-> c, title |-> t, content |-> x]
JoinedRow(b, c) ==
    [id |-> b.id, category_id |-> b.category_id, title |-> b.title,
     content |-> b.content, category_name |-> c.name]
\* A row of logs; no handler reads the message column, which is left out.
LogRow(i, l, ts) == [id |-> i, level |-> l, created_at |-> ts]

NoArg == [id |-> 0, name |-> "", category_id |-> 0, title |-> "", content |-> ""]
NoCur == [row |-> {}, rowcount |-> 0, lastrowid |-> 0]
NoResp == [kind |-> "none", body |-> {}]
NoSnap == [categories |-> {}, blocks |-> {}, nlogs |-> 0]

Tables == [categories |-> categories, blocks |-> blocks,
           catSeq |-> catSeq, blockSeq |-> blockSeq]
NoTx == [open |-> FALSE, view |-> {}]
OpenTx(t) == [open |-> TRUE, view |-> t]

Ids(rows) == {r.id : r \in rows}
MaxOf(S) == IF S = {} THEN 0 ELSE CHOOSE m \in S : \A x \in S : x <= m
MinOf(S) == CHOOSE m \in S : \A x \in S : m <= x

\* The rows of a table in rowid order, as a cursor returns them.
RECURSIVE ByRowid(_)
ByRowid(rows) ==
    IF rows = {} THEN <<>>
    ELSE LET r == CHOOSE x \in rows : x.id = MinOf(Ids(rows))
         IN  <<r>> \o ByRowid(rows \ {r})


\* ---------------------------------------------------------------- SQL statements
\* A statement's outcome: the exception it raises ("" for none), the cursor
\* after it, and the tables as the connection's transaction then sees them.
Outcome(e, n, last, t) == [exc |-> e, rowcount |-> n, lastrowid |-> last, t |-> t]

\* INTEGER PRIMARY KEY with a rowid taken from the largest rowid in the table
\* (what the tables would do without AUTOINCREMENT).
NextRowidMaxPlusOne(seq, rows) == MaxOf(Ids(rows)) + 1

\* INTEGER PRIMARY KEY AUTOINCREMENT: one more than the largest rowid the
\* table has ever held, which sqlite_sequence remembers.
NextRowid(seq, rows) == MaxOf(Ids(rows) \cup {seq}) + 1

\* SELECT id, name FROM categories WHERE id = ?
SelectCategory(cats, i) == {c \in cats : c.id = i}

\* INSERT INTO categories (name) VALUES (?), name TEXT UNIQUE NOT NULL
InsertCategory(t, n) ==
    IF \E c \in t.categories : c.name = n
    THEN Outcome("IntegrityError", 0, 0, t)
    ELSE LET i == NextRowid(t.catSeq, t.categories)
         IN  Outcome("", 1, i, [t EXCEPT !.categories = @ \cup {Cat(i, n)},
                                         !.catSeq = i])

\* UPDATE categories SET name = ? WHERE id = ?
UpdateCategory(t, i, n) ==
    LET hit == SelectCategory(t.categories, i)
    IN  IF hit = {} THEN Outcome("", 0, 0, t)
        ELSE IF \E c \in t.categories \ hit : c.name = n
        THEN Outcome("IntegrityError", 0, 0, t)
        ELSE Outcome("", 1, 0, [t EXCEPT !.categories = (@ \ hit) \cup {Cat(i, n)}])

\* A DELETE that also removes the blocks of the category (ON DELETE CASCADE).
DeleteCategoryCascade(t, i) ==
    LET hit == SelectCategory(t.categories, i)
    IN  Outcome("", Cardinality(hit), 0,
                [t EXCEPT !.categories = @ \ hit,
                          !.blocks = {b \in @ : hit = {} \/ b.category_id # i}])

\* DELETE FROM categories WHERE id = ?   (foreign keys are not enforced)
DeleteCategory(t, i) ==
    LET hit == SelectCategory(t.categories, i)
    IN  Outcome("", Cardinality(hit), 0, [t EXCEPT !.categories = @ \ hit])

\* An INSERT under PRAGMA foreign_keys = ON: a missing category is refused.
InsertBlockForeignKey(t, a) ==
    IF SelectCategory(t.categories, a.category_id) = {}
    THEN Outcome("IntegrityError", 0, 0, t)
    ELSE LET i == NextRowid(t.blockSeq, t.blocks)
         IN  Outcome("", 1, i,
                     [t EXCEPT !.blocks = @ \cup {Blk(i, a.category_id, a.title, a.content)},
                               !.blockSeq = i])

\* INSERT INTO blocks (category_id, title, content) VALUES (?, ?, ?)
InsertBlock(t, a) ==
    LET i == NextRowid(t.blockSeq, t.blocks)
    IN  Outcome("", 1, i,
                [t EXCEPT !.blocks = @ \cup {Blk(i, a.category_id, a.title, a.content)},
                          !.blockSeq = i])

\* UPDATE blocks SET category_id = ?, title = ?, content = ? WHERE id = ?
UpdateBlock(t, i, a) ==
    LET hit == {b \in t.blocks : b.id = i}
    IN  IF hit = {} THEN Outcome("", 0, 0, t)
        ELSE Outcome("", 1, 0,
                     [t EXCEPT !.blocks = (@ \ hit)
                                   \cup {Blk(i, a.category_id, a.title, a.content)}])

\* DELETE FROM blocks WHERE id = ?
DeleteBlock(t, i) ==
    LET hit == {b \in t.blocks : b.id = i}
    IN  Outcome("", Cardinality(hit), 0, [t EXCEPT !.blocks = @ \ hit])

\* FROM blocks b LEFT JOIN categories c: a block without a category is kept,
\* with no category name.
RECURSIVE LeftJoinBlocks(_, _)
LeftJoinBlocks(bs, cats) ==
    IF bs = <<>> THEN <<>>
    ELSE LET b == Head(bs)
             m == ByRowid(SelectCategory(cats, b.category_id))
         IN  (IF m = <<>> THEN <<JoinedRow(b, Cat(0, ""))>>
              ELSE [k \in 1..Len(m) |-> JoinedRow(b, m[k])])
             \o LeftJoinBlocks(Tail(bs), cats)

\* SELECT b.id, b.category_id, b.title, b.content, c.name as category_name
\* FROM blocks b JOIN categories c ON b.category_id = c.id
\* For each block in rowid order, one row per category it matches.
RECURSIVE JoinBlocks(_, _)
JoinBlocks(bs, cats) ==
    IF bs = <<>> THEN <<>>
    ELSE LET b == Head(bs)
             m == ByRowid(SelectCategory(cats, b.category_id))
         IN  [k \in 1..Len(m) |-> JoinedRow(b, m[k])] \o JoinBlocks(Tail(bs), cats)

\* Inserts row r into a sequence sorted by created_at descending, after the
\* rows of the same created_at (the sorter keeps rows that compare equal in
\* the order it read them, which is rowid order).
RECURSIVE InsertByCreatedAtDesc(_, _)
InsertByCreatedAtDesc(sorted, r) ==
    IF sorted = <<>> THEN <<r>>
    ELSE IF Head(sorted).created_at >= r.created_at
    THEN <<Head(sorted)>> \o InsertByCreatedAtDesc(Tail(sorted), r)
    ELSE <<r>> \o sorted

\* SELECT id, level, message, created_at FROM logs ORDER BY created_at DESC
RECURSIVE OrderByCreatedAtDesc(_)
OrderByCreatedAtDesc(rows) ==
    IF rows = <<>> THEN <<>>
    ELSE InsertByCreatedAtDesc(OrderByCreatedAtDesc(SubSeq(rows, 1, Len(rows) - 1)),
                               rows[Len(rows)])

\* A handler whose conn.commit() is missing: the transaction stays open.
ConnCommitMissing(committed, t) == [tables |-> committed, tx |-> t]

\* conn.commit(): the transaction's changes become the committed tables and
\* the write lock is released.
ConnCommit(committed, t) ==
    IF t.open THEN [tables |-> t.view, tx |-> NoTx]
    ELSE [tables |-> committed, tx |-> NoTx]


\* ---------------------------------------------------------------- requests
ArgsOf(o, B) ==
    CASE o \in {"get_categories", "get_blocks", "get_logs"} -> {NoArg}
      [] o \in {"get_category", "delete_category"} ->
            {[NoArg EXCEPT !.id = i] : i \in 1..B.cats}
      [] o = "add_category" -> {[NoArg EXCEPT !.name = n] : n \in B.names}
      [] o = "update_category" ->
            {[NoArg EXCEPT !.id = i, !.name = n] : i \in 1..B.cats, n \in B.names}
      [] o = "add_block" ->
            {[NoArg EXCEPT !.category_id = c, !.title = t, !.content = x] :
                c \in 1..B.cats, t \in B.titles, x \in Contents}
      [] o = "update_block" ->
            {[NoArg EXCEPT !.id = i, !.category_id = c, !.title = t, !.content = x] :
                i \in 1..B.blocks, c \in 1..B.cats, t \in B.titles, x \in Contents}
      [] o = "delete_block" -> {[NoArg EXCEPT !.id = i] : i \in 1..B.blocks}

FirstStep(o) ==
    IF o \in ReadOps THEN "select" ELSE IF o = "add_block" THEN "check" ELSE "execute"

Running(o) == {q \in Procs : pc[q] \notin {"idle", "off", "done"} /\ op[q] = o}
InFlight == {q \in Procs : pc[q] \notin {"idle", "off", "done"}}
WriteLocked == \E q \in Procs : tx[q].open

\* The responses of the handlers.
RowsResp(rows) == [kind |-> "rows", body |-> rows]
RowResp(row) == [kind |-> "row", body |-> row]
ErrorResp(text) == [kind |-> "error", body |-> text]
MessageResp(text) == [kind |-> "message", body |-> text]
\* An exception no handler catches: the framework answers 500.
Raised(exc, at) == [kind |-> "raised", body |-> [exc |-> exc, at |-> at]]

\* A request for one of the handlers `ops` arrives: FastAPI validates path and
\* body and calls the handler.
Arrive(p, ops, B) ==
    /\ pc[p] = "idle"
    /\ \E o \in ops : \E a \in ArgsOf(o, B) :
        /\ o # "get_logs" => Len(logs) + Cardinality(InFlight) < B.logs
        /\ o = "add_category" => catSeq + Cardinality(Running(o)) < B.cats
        /\ o = "add_block" => blockSeq + Cardinality(Running(o)) < B.blocks
        /\ op' = [op EXCEPT ![p] = o]
        /\ arg' = [arg EXCEPT ![p] = a]
        /\ pc' = [pc EXCEPT ![p] = FirstStep(o)]
    /\ UNCHANGED <<store, logs, clock, tx, cur, level, resp, assigned>>

\* A request for any handler; the committed tables it finds are remembered.
Request(p) ==
    /\ Arrive(p, Ops, SeqBounds)
    /\ snap' = [snap EXCEPT ![p] = [categories |-> categories, blocks |-> blocks,
                                   nlogs |-> Len(logs)]]

\* A request for a handler that writes, while others are in flight.
RequestMutating(p) ==
    /\ Arrive(p, MutatingOps, ConcBounds)
    /\ UNCHANGED snap

\* get_categories: SELECT id, name FROM categories
GetCategories(p) ==
    /\ pc[p] = "select" /\ op[p] = "get_categories"
    /\ level' = [level EXCEPT ![p] = "info"]
    /\ resp' = [resp EXCEPT ![p] = RowsResp(ByRowid(categories))]
    /\ pc' = [pc EXCEPT ![p] = "log"]
    /\ UNCHANGED <<store, logs, clock, tx, op, arg, cur, snap, assigned>>

\* get_category: SELECT ... WHERE id = ?, fetchone
GetCategory(p) ==
    /\ pc[p] = "select" /\ op[p] = "get_category"
    /\ LET hit == SelectCategory(categories, arg[p].id)
       IN  /\ cur' = [cur EXCEPT ![p].row = hit]
           /\ IF hit # {}
              THEN /\ level' = [level EXCEPT ![p] = "info"]
                   /\ resp' = [resp EXCEPT ![p] = RowResp(CHOOSE c \in hit : TRUE)]
              ELSE /\ level' = [level EXCEPT ![p] = "warning"]
                   /\ resp' = [resp EXCEPT ![p] = ErrorResp("Category not found")]
    /\ pc' = [pc EXCEPT ![p] = "log"]
    /\ UNCHANGED <<store, logs, clock, tx, op, arg, snap, assigned>>

\* get_blocks: the join, fetchall
GetBlocks(p) ==
    /\ pc[p] = "select" /\ op[p] = "get_blocks"
    /\ level' = [level EXCEPT ![p] = "info"]
    /\ resp' = [resp EXCEPT ![p] = RowsResp(JoinBlocks(ByRowid(blocks), categories))]
    /\ pc' = [pc EXCEPT ![p] = "log"]
    /\ UNCHANGED <<store, logs, clock, tx, op, arg, cur, snap, assigned>>

\* get_logs: the ordered SELECT; the handler does not call app_log
GetLogs(p) ==
    /\ pc[p] = "select" /\ op[p] = "get_logs"
    /\ resp' = [resp EXCEPT ![p] = RowsResp(OrderByCreatedAtDesc(logs))]
    /\ pc' = [pc EXCEPT ![p] = "done"]
    /\ UNCHANGED <<store, logs, clock, tx, op, arg, cur, level, snap, assigned>>

\* add_block: SELECT id FROM categories WHERE id = ?, and the early return
AddBlockCheck(p) ==
    /\ pc[p] = "check" /\ op[p] = "add_block"
    /\ LET hit == SelectCategory(categories, arg[p].category_id)
       IN  /\ cur' = [cur EXCEPT ![p].row = hit]
           /\ IF hit = {}
              THEN /\ level' = [level EXCEPT ![p] = "warning"]
                   /\ resp' = [resp EXCEPT ![p] = ErrorResp("Gecersiz kategori id")]
                   /\ pc' = [pc EXCEPT ![p] = "log"]
              ELSE /\ pc' = [pc EXCEPT ![p] = "execute"]
                   /\ UNCHANGED <<level, resp>>
    /\ UNCHANGED <<store, logs, clock, tx, op, arg, snap, assigned>>

\* The handler's INSERT, UPDATE or DELETE.
Statement(o, t, a) ==
    CASE o = "add_category" -> InsertCategory(t, a.name)
      [] o = "update_category" -> UpdateCategory(t, a.id, a.name)
      [] o = "delete_category" -> DeleteCategory(t, a.id)
      [] o = "add_block" -> InsertBlock(t, a)
      [] o = "update_block" -> UpdateBlock(t, a.id, a)
      [] o = "delete_block" -> DeleteBlock(t, a.id)

\* cursor.execute of a handler's INSERT, UPDATE or DELETE.  The connection
\* begins a transaction and takes the write lock; a failed statement leaves the
\* transaction open.  add_category catches IntegrityError and goes on to
\* app_log inside the `with` block; in the other handlers the exception leaves
\* the `with` block, which rolls back.
Execute(p) ==
    /\ pc[p] = "execute" /\ op[p] \in MutatingOps
    /\ ~WriteLocked
    /\ LET r == Statement(op[p], Tables, arg[p])
       IN  IF r.exc = ""
           THEN /\ tx' = [tx EXCEPT ![p] = OpenTx(r.t)]
                /\ cur' = [cur EXCEPT ![p].rowcount = r.rowcount,
                                      ![p].lastrowid = r.lastrowid]
                /\ pc' = [pc EXCEPT ![p] = "commit"]
                /\ UNCHANGED <<level, resp>>
           ELSE IF op[p] = "add_category"
           THEN /\ tx' = [tx EXCEPT ![p] = OpenTx(r.t)]
                /\ level' = [level EXCEPT ![p] = "warning"]
                /\ resp' = [resp EXCEPT ![p] = ErrorResp("Bu kategori zaten mevcut")]
                /\ pc' = [pc EXCEPT ![p] = "log"]
                /\ UNCHANGED cur
           ELSE /\ resp' = [resp EXCEPT ![p] = Raised(r.exc, "execute")]
                /\ pc' = [pc EXCEPT ![p] = "done"]
                /\ UNCHANGED <<tx, cur, level>>
    /\ UNCHANGED <<store, logs, clock, op, arg, snap, assigned>>

\* The write lock is held by another connection for longer than the busy
\* timeout: cursor.execute raises OperationalError, which no handler catches.
ExecuteBusy(p) ==
    /\ pc[p] = "execute"
    /\ \E q \in Procs \ {p} : tx[q].open
    /\ resp' = [resp EXCEPT ![p] = Raised("OperationalError", "execute")]
    /\ pc' = [pc EXCEPT ![p] = "done"]
    /\ UNCHANGED <<store, logs, clock, tx, op, arg, cur, level, snap, assigned>>

\* What the handler answers after its commit.
Answer(o, a, c) ==
    CASE o = "add_category" -> RowResp(Cat(c.lastrowid, a.name))
      [] o = "update_category" ->
            IF c.rowcount = 0 THEN ErrorResp("Category not found")
            ELSE RowResp(Cat(a.id, a.name))
      [] o = "delete_category" ->
            IF c.rowcount = 0 THEN ErrorResp("Category not found")
            ELSE MessageResp("Category deleted")
      [] o = "add_block" -> RowResp(Blk(c.lastrowid, a.category_id, a.title, a.content))
      [] o = "update_block" ->
            IF c.rowcount = 0 THEN ErrorResp("Block not found")
            ELSE RowResp(Blk(a.id, a.category_id, a.title, a.content))
      [] o = "delete_block" ->
            IF c.rowcount = 0 THEN ErrorResp("Block not found")
            ELSE MessageResp("Block deleted")

\* conn.commit() and the handler's choice of log level and response.
Commit(p) ==
    /\ pc[p] = "commit"
    /\ LET c == ConnCommit(Tables, tx[p])
       IN  /\ categories' = c.tables.categories
           /\ blocks' = c.tables.blocks
           /\ catSeq' = c.tables.catSeq
           /\ blockSeq' = c.tables.blockSeq
           /\ tx' = [tx EXCEPT ![p] = c.tx]
           /\ assigned' = assigned \cup Ids(c.tables.categories)
    /\ resp' = [resp EXCEPT ![p] = Answer(op[p], arg[p], cur[p])]
    /\ level' = [level EXCEPT ![p] = IF resp'[p].kind = "error" THEN "warning" ELSE "info"]
    /\ pc' = [pc EXCEPT ![p] = "log"]
    /\ UNCHANGED <<logs, clock, op, arg, cur, snap>>

\* app_log: log_to_db opens a connection of its own, inserts the row and
\* commits; created_at is the store's CURRENT_TIMESTAMP.
AppLog(p) ==
    /\ pc[p] = "log"
    /\ ~WriteLocked
    /\ logs' = Append(logs, LogRow(Len(logs) + 1, level[p], clock))
    /\ pc' = [pc EXCEPT ![p] = "done"]
    /\ UNCHANGED <<store, clock, tx, op, arg, cur, level, resp, snap, assigned>>

\* log_to_db cannot take the write lock: the handler's own connection holds
\* it (its transaction is still open), or another connection holds it for
\* longer than the busy timeout.  The INSERT raises OperationalError; neither
\* log_to_db, app_log nor the handler catches it, and a `with` block it leaves
\* rolls the handler's transaction back.
AppLogLocked(p) ==
    /\ pc[p] = "log"
    /\ WriteLocked
    /\ resp' = [resp EXCEPT ![p] = Raised("OperationalError", "log_to_db")]
    /\ tx' = [tx EXCEPT ![p] = NoTx]
    /\ pc' = [pc EXCEPT ![p] = "done"]
    /\ UNCHANGED <<store, logs, clock, op, arg, cur, level, snap, assigned>>

\* The response leaves; the handler's locals and its connection are dropped.
Return(p) ==
    /\ pc[p] = "done"
    /\ pc' = [pc EXCEPT ![p] = "idle"]
    /\ op' = [op EXCEPT ![p] = "none"]
    /\ arg' = [arg EXCEPT ![p] = NoArg]
    /\ cur' = [cur EXCEPT ![p] = NoCur]
    /\ level' = [level EXCEPT ![p] = "none"]
    /\ resp' = [resp EXCEPT ![p] = NoResp]
    /\ snap' = [snap EXCEPT ![p] = NoSnap]
    /\ UNCHANGED <<store, logs, clock, tx, assigned>>

\* A second passes on the store's clock.
Tick ==
    /\ clock < MaxClock
    /\ clock' = clock + 1
    /\ UNCHANGED <<store, logs, tx, pc, locals, assigned>>

\* ---------------------------------------------------------------- specifications
\* The tables as the CREATE TABLE IF NOT EXISTS statements leave a new file.
InitStore ==
    /\ categories = {} /\ blocks = {} /\ logs = <<>>
    /\ catSeq = 0 /\ blockSeq = 0 /\ clock = 0
    /\ assigned = {}
    /\ tx = [p \in Procs |-> NoTx]
    /\ op = [p \in Procs |-> "none"]
    /\ arg = [p \in Procs |-> NoArg]
    /\ cur = [p \in Procs |-> NoCur]
    /\ level = [p \in Procs |-> "none"]
    /\ resp = [p \in Procs |-> NoResp]
    /\ snap = [p \in Procs |-> NoSnap]

\* One request at a time.
Init == InitStore /\ pc = [p \in Procs |-> IF p = 1 THEN "idle" ELSE "off"]

\* Requests served concurrently (FastAPI runs `def` handlers on a thread pool).
InitConc == InitStore /\ pc = [p \in Procs |-> "idle"]

Step(p) ==
    \/ Request(p)
    \/ GetCategories(p)
    \/ GetCategory(p)
    \/ GetBlocks(p)
    \/ GetLogs(p)
    \/ AddBlockCheck(p)
    \/ Execute(p)
    \/ Commit(p)
    \/ AppLog(p)
    \/ AppLogLocked(p)
    \/ Return(p)

Next == Tick \/ \E p \in Procs : Step(p)

StepConc(p) ==
    \/ RequestMutating(p)
    \/ AddBlockCheck(p)
    \/ Execute(p)
    \/ ExecuteBusy(p)
    \/ Commit(p)
    \/ AppLog(p)
    \/ AppLogLocked(p)
    \/ Return(p)

NextConc == \E p \in Procs : StepConc(p)

Spec == Init /\ [][Next]_vars

SpecConc == InitConc /\ [][NextConc]_vars


\* ---------------------------------------------------------------- properties
Done(p) == pc[p] = "done"
LogFailed(p) == resp[p] = Raised("OperationalError", "log_to_db")
Listed(rows, b) == {k \in 1..Len(rows) : rows[k].id = b.id}
Dangling(b, cats) == b.category_id \notin Ids(cats)

\* What the request found in the tables when it arrived.
NameTaken(p) ==
    op[p] = "add_category" /\ \E c \in snap[p].categories : c.name = arg[p].name
RenameTaken(p) ==
    /\ op[p] = "update_category"
    /\ arg[p].id \in Ids(snap[p].categories)
    /\ \E c \in snap[p].categories : c.id # arg[p].id /\ c.name = arg[p].name
CategoryMissing(p) ==
    /\ op[p] \in {"get_category", "update_category", "delete_category"}
    /\ arg[p].id \notin Ids(snap[p].categories)
BlockMissing(p) ==
    op[p] \in {"update_block", "delete_block"} /\ arg[p].id \notin Ids(snap[p].blocks)
BadCategory(p) ==
    op[p] = "add_block" /\ arg[p].category_id \notin Ids(snap[p].categories)
Rejected(p) == NameTaken(p) \/ CategoryMissing(p) \/ BlockMissing(p) \/ BadCategory(p)

\* C1: an add_category or update_category that would break the uniqueness of
\* names ends with an {error} payload, never with an unhandled exception.
C1_ConflictIsSoftError ==
    \A p \in Procs :
        Done(p) /\ (NameTaken(p) \/ RenameTaken(p)) => resp[p].kind = "error"

\* C2: every mutating request that succeeds appends exactly one logs row, of
\* level info, and every rejected request (not found, name taken, bad
\* category) appends exactly one logs row, of level warning.
C2_OneLogRowPerOperation ==
    \A p \in Procs :
        Done(p) /\ (op[p] \in MutatingOps \/ Rejected(p)) =>
            /\ Len(logs) = snap[p].nlogs + 1
            /\ logs[Len(logs)].level =
                   (IF Rejected(p) \/ RenameTaken(p) THEN "warning" ELSE "info")

\* C3: a rejected request answers an {error} payload and leaves the rows of
\* categories and blocks as they were.
C3_RejectedLeavesTablesUnchanged ==
    \A p \in Procs :
        Done(p) /\ Rejected(p) =>
            /\ resp[p].kind = "error"
            /\ categories = snap[p].categories
            /\ blocks = snap[p].blocks

\* C4 as stated: GET /blocks still returns the blocks of a category that has
\* been deleted, with their category_id.
C4_OrphanedBlocksListed ==
    \A p \in Procs :
        Done(p) /\ op[p] = "get_blocks" =>
            \A b \in blocks :
                b.category_id \in assigned /\ Dangling(b, categories) =>
                    \E k \in Listed(resp[p].body, b) :
                        resp[p].body[k].category_id = b.category_id

\* C4 as amended: deleting a category leaves every block stored as it was, so
\* the blocks of the category keep its id as category_id (no cascade), and
\* GET /blocks returns no block whose category_id matches no stored category.
C4_OrphanedBlocksKeptButNotListed ==
    \A p \in Procs :
        /\ Done(p) /\ op[p] = "delete_category" /\ resp[p].kind = "message" =>
              /\ blocks = snap[p].blocks
              /\ \A b \in blocks : b.category_id = arg[p].id => Dangling(b, categories)
        /\ Done(p) /\ op[p] = "get_blocks" =>
              \A b \in blocks :
                  Dangling(b, categories) => Listed(resp[p].body, b) = {}

\* C4 witness: GET /blocks has answered while a block of a deleted category
\* is stored.
C4_Witness ==
    \E p \in Procs :
        /\ Done(p) /\ op[p] = "get_blocks"
        /\ \E b \in blocks : b.category_id \in assigned /\ Dangling(b, categories)

\* C5: GET /blocks returns exactly one entry for each stored block whose
\* category_id is the id of a stored category, with the block's fields and
\* that category's name, and no entry for any other block.
C5_GetBlocksIsInnerJoin ==
    \A p \in Procs :
        op[p] = "get_blocks" /\ pc[p] \in {"log", "done"} =>
            LET rows == resp[p].body
            IN  /\ \A b \in blocks :
                     IF Dangling(b, categories) THEN Listed(rows, b) = {}
                     ELSE /\ Cardinality(Listed(rows, b)) = 1
                          /\ \A k \in Listed(rows, b) : \E c \in categories :
                                /\ c.id = b.category_id
                                /\ rows[k] = [id |-> b.id, category_id |-> b.category_id,
                                              title |-> b.title, content |-> b.content,
                                              category_name |-> c.name]
                /\ \A k \in 1..Len(rows) : rows[k].id \in Ids(blocks)

\* C5 witness: GET /blocks has answered with a block and its category's name.
C5_Witness ==
    \E p \in Procs :
        /\ Done(p) /\ op[p] = "get_blocks" /\ Len(resp[p].body) >= 1
        /\ \E c \in categories : c.name = resp[p].body[1].category_name

\* C6: GET /logs returns the rows newest first: of two rows, the one inserted
\* later (the larger id) comes earlier.
C6_LogsNewestFirst ==
    \A p \in Procs :
        Done(p) /\ op[p] = "get_logs" =>
            \A i, j \in 1..Len(resp[p].body) :
                i < j => resp[p].body[i].id > resp[p].body[j].id

\* C7: when the INSERT into logs fails, the handler still returns its payload.
C7_LogFailureDoesNotFailRequest ==
    \A p \in Procs : Done(p) => ~LogFailed(p)

\* C8: add_block's INSERT does not look at categories again: once the check
\* has passed, the INSERT succeeds although the category has been deleted in
\* between, and the commit stores the block with that category_id.
C8_InsertAfterDeleteSucceeds ==
    [][\A p \in Procs :
          op[p] = "add_block" =>
             /\ (/\ pc[p] = "execute" /\ pc'[p] # "execute"
                 /\ ~WriteLocked
                 /\ arg[p].category_id \notin Ids(categories))
                 => pc'[p] = "commit"
             /\ (pc[p] = "commit" /\ pc'[p] = "log")
                 => /\ resp'[p].kind = "row"
                    /\ resp'[p].body \in blocks'
                    /\ resp'[p].body.category_id = arg[p].category_id]_vars

\* C8 witness: add_block has inserted its block after a concurrent
\* delete_category removed the category that its check had seen.
C8_Witness ==
    \E p, q \in Procs :
        /\ op[p] = "add_block" /\ pc[p] = "commit" /\ tx[p].open
        /\ cur[p].row # {}
        /\ arg[p].category_id \notin Ids(categories)
        /\ op[q] = "delete_category" /\ Done(q) /\ resp[q].kind = "message"
        /\ arg[q].id = arg[p].category_id

C10_CategoryIdsNeverReused ==
    [][\A c \in categories' :
          c.id \notin Ids(categories) =>
             /\ \A i \in assigned : c.id > i
             /\ \A b \in blocks' :
                   b.category_id \in assigned /\ Dangling(b, categories)
                       => b.category_id # c.id]_vars

\* C10 witness: a category has been created after another was deleted, while
\* a block of the deleted category is stored.
C10_Witness ==
    \E p \in Procs :
        /\ Done(p) /\ op[p] = "add_category" /\ resp[p].kind = "row"
        /\ resp[p].body \in categories
        /\ \E b \in blocks :
              b.category_id \in assigned /\ b.category_id < resp[p].body.id
              /\ Dangling(b, categories)

====
